---- MODULE Spec2Model ----
(***************************************************************************)
(* Model of scripts/translate_bill.py: the line-item parser, the rule      *)
(* engine (evaluate_line), duplicate detection (find_duplicates) and the   *)
(* orchestrator (run).                                                     *)
(*                                                                         *)
(* Representation.                                                         *)
(*  - The pasted text is held as csv.DictReader tokenises it: the header's *)
(*    field names and one mapping (column name -> raw string) per physical *)
(*    line; a blank line is the empty mapping.                             *)
(*  - int(), datetime.strptime() and float() are finite tables from the    *)
(*    raw strings of the model's alphabet to their values; a string that   *)
(*    is not in a table is one the conversion rejects (ValueError).        *)
(*  - A charge is held in integer cents (every literal of the alphabet is  *)
(*    exactly representable, so float equality is integer equality).       *)
(*  - A date is held as the integer yyyymmdd, which orders as dates do.    *)
(***************************************************************************)
EXTENDS Integers, Sequences, FiniteSets, TLC

VARIABLES
    pc,               \* position inside run(): the statement about to execute
    catalog_file,     \* the catalog on disk: [exists, rows]
    header,           \* the caller's header mapping (mutable dict)
    line_items_text,  \* the raw line-item text, as tokenised
    code_defs,        \* load_code_definitions' result
    items,            \* parse_line_items' first result
    parse_errors,     \* parse_line_items' second result
    evaluated,        \* [evaluate_line(it, code_defs) for it in items]
    dup_groups,       \* find_duplicates(items)
    output,           \* the document run() returns
    called            \* the functions run() has called so far

vars == <<pc, catalog_file, header, line_items_text, code_defs, items,
          parse_errors, evaluated, dup_groups, output, called>>

(***************************************************************************)
(* Bounds of the model.                                                    *)
(***************************************************************************)
MaxRows == 4        \* physical lines after the header, pipeline runs
MaxParseRows == 2   \* physical lines after the header, parser-only runs

(***************************************************************************)
(* Generic helpers: sorted()/list.sort() (stable) and str.join().          *)
(***************************************************************************)
\* The order a stable ascending sort puts the positions of keys in: position
\* i comes before j when its key is smaller, or equal and i is earlier.
StableOrder(keys) ==
    LET rank(i) == Cardinality({j \in DOMAIN keys :
                        \/ keys[j] < keys[i]
                        \/ (keys[j] = keys[i] /\ j < i)}) + 1
    IN  [r \in DOMAIN keys |-> CHOOSE i \in DOMAIN keys : rank(i) = r]

\* sorted(lids)
Sorted(ints) == [r \in DOMAIN ints |-> ints[StableOrder(ints)[r]]]

RECURSIVE Join(_, _)
Join(strs, sep) ==
    IF strs = <<>> THEN ""
    ELSE IF Len(strs) = 1 THEN strs[1]
    ELSE strs[1] \o sep \o Join(Tail(strs), sep)

(***************************************************************************)
(* Conversions.                                                            *)
(***************************************************************************)
\* str.strip(): the padded strings of the alphabet and what they strip to
Padded == ("   " :> "") @@ (" charge" :> "charge") @@ (" 2 " :> "2")

Strip(s) == IF s \in DOMAIN Padded THEN Padded[s] ELSE s

\* int(s): the integer literals of the alphabet
IntLiteral ==
    ("0" :> 0) @@ ("1" :> 1) @@ ("01" :> 1) @@ ("2" :> 2) @@ ("3" :> 3) @@
    ("4" :> 4) @@ ("7" :> 7) @@ ("-1" :> (0 - 1))

\* datetime.strptime(s, "%Y-%m-%d").date(): the date literals of the alphabet
DateLiteral ==
    ("2024-05-01" :> 20240501) @@ ("2024-5-1" :> 20240501) @@
    ("2024-05-02" :> 20240502) @@ ("2019-12-31" :> 20191231)

\* float(s.replace("$", "").replace(",", "")), in cents
ChargeLiteral ==
    ("0" :> 0) @@ ("0.00" :> 0) @@ ("50" :> 5000) @@ ("50.00" :> 5000) @@
    ("$50.00" :> 5000) @@ ("75.00" :> 7500) @@ ("$1,250.00" :> 125000) @@
    ("-5.00" :> (0 - 500))

parse_date(s) == DateLiteral[Strip(s)]

parse_charge(s) == ChargeLiteral[Strip(s)]

parse_units(s) == IntLiteral[Strip(s)]

(***************************************************************************)
(* parse_line_items                                                        *)
(***************************************************************************)
\* Variant of REQUIRED_COLUMNS that omits charge.
REQUIRED_COLUMNS_NoCharge ==
    {"line_id", "date_of_service", "code", "code_type", "units"}

REQUIRED_COLUMNS ==
    {"line_id", "date_of_service", "code", "code_type", "units", "charge"}

\* sorted(missing_cols): the required columns in lexicographic order
SortedColumns(cols) ==
    SelectSeq(<<"charge", "code", "code_type", "date_of_service",
                "line_id", "units">>, LAMBDA c : c \in cols)

\* (row.get(col) or "").strip()
RawField(row, col) == IF col \in DOMAIN row THEN Strip(row[col]) ELSE ""

ParseError(row_number, line_id, reason) ==
    [row_number |-> row_number, line_id |-> line_id, reason |-> reason]

\* Variant of ParseRow that validates units before code_type.
ParseRow_UnitsBeforeCodeType(row, row_num) ==
    LET raw_line_id == RawField(row, "line_id")
        raw_dos     == RawField(row, "date_of_service")
        raw_code    == RawField(row, "code")
        raw_ct      == RawField(row, "code_type")
        raw_units   == RawField(row, "units")
        raw_charge  == RawField(row, "charge")
        Fail(lid, reason) ==
            [ok |-> FALSE, error |-> ParseError(row_num, lid, reason)]
    IN  IF raw_line_id \notin DOMAIN IntLiteral
        THEN Fail(IF raw_line_id = "" THEN "N/A" ELSE raw_line_id,
                  "Invalid or missing line_id: '" \o raw_line_id \o "'")
        ELSE LET line_id == IntLiteral[raw_line_id]
                 lid_str == ToString(line_id)
        IN  IF raw_dos \notin DOMAIN DateLiteral
            THEN Fail(lid_str, "Invalid date_of_service: '" \o raw_dos \o "'")
            ELSE IF raw_code = ""
            THEN Fail(lid_str, "Missing code value")
            ELSE IF raw_units \notin DOMAIN IntLiteral
            THEN Fail(lid_str, "Invalid units: '" \o raw_units \o "'")
            ELSE IF raw_ct = ""
            THEN Fail(lid_str, "Missing code_type value")
            ELSE IF raw_charge \notin DOMAIN ChargeLiteral
            THEN Fail(lid_str, "Invalid charge: '" \o raw_charge \o "'")
            ELSE [ok |-> TRUE,
                  item |-> [line_id         |-> line_id,
                            date_of_service |-> raw_dos,
                            dos_date        |-> parse_date(raw_dos),
                            code            |-> raw_code,
                            code_type       |-> raw_ct,
                            units           |-> parse_units(raw_units),
                            charge          |-> parse_charge(raw_charge),
                            bill_label      |-> RawField(row, "bill_label")]]

\* One turn of the loop over the reader: the six checks in order, each one
\* ending the turn (continue) with one error; a row passing all of them is
\* appended to items.
ParseRow(row, row_num) ==
    LET raw_line_id == RawField(row, "line_id")
        raw_dos     == RawField(row, "date_of_service")
        raw_code    == RawField(row, "code")
        raw_ct      == RawField(row, "code_type")
        raw_units   == RawField(row, "units")
        raw_charge  == RawField(row, "charge")
        Fail(lid, reason) ==
            [ok |-> FALSE, error |-> ParseError(row_num, lid, reason)]
    IN  IF raw_line_id \notin DOMAIN IntLiteral
        THEN Fail(IF raw_line_id = "" THEN "N/A" ELSE raw_line_id,
                  "Invalid or missing line_id: '" \o raw_line_id \o "'")
        ELSE LET line_id == IntLiteral[raw_line_id]
                 lid_str == ToString(line_id)
        IN  IF raw_dos \notin DOMAIN DateLiteral
            THEN Fail(lid_str, "Invalid date_of_service: '" \o raw_dos \o "'")
            ELSE IF raw_code = ""
            THEN Fail(lid_str, "Missing code value")
            ELSE IF raw_ct = ""
            THEN Fail(lid_str, "Missing code_type value")
            ELSE IF raw_units \notin DOMAIN IntLiteral
            THEN Fail(lid_str, "Invalid units: '" \o raw_units \o "'")
            ELSE IF raw_charge \notin DOMAIN ChargeLiteral
            THEN Fail(lid_str, "Invalid charge: '" \o raw_charge \o "'")
            ELSE [ok |-> TRUE,
                  item |-> [line_id         |-> line_id,
                            date_of_service |-> raw_dos,
                            dos_date        |-> parse_date(raw_dos),
                            code            |-> raw_code,
                            code_type       |-> raw_ct,
                            units           |-> parse_units(raw_units),
                            charge          |-> parse_charge(raw_charge),
                            bill_label      |-> RawField(row, "bill_label")]]

\* csv.DictReader skips the lines that tokenise to no field at all
DataRows(text) == SelectSeq(text.rows, LAMBDA r : DOMAIN r # {})

\* items.sort(key=lambda r: r["line_id"])
SortByLineId(its) ==
    LET order == StableOrder([i \in DOMAIN its |-> its[i].line_id])
    IN  [r \in DOMAIN its |-> its[order[r]]]

parse_line_items(text) ==
    IF text.blank
    THEN [items |-> <<>>, errors |-> <<>>]
    ELSE
    LET header_fields == {Strip(f) : f \in text.fieldnames \ {""}}
        missing_cols  == REQUIRED_COLUMNS \ header_fields
    IN  IF missing_cols # {}
        THEN [items  |-> <<>>,
              errors |-> <<ParseError(0, "N/A",
                              "Missing required column(s): "
                              \o Join(SortedColumns(missing_cols), ", "))>>]
        ELSE
        LET data     == DataRows(text)
            outcome  == [i \in DOMAIN data |-> ParseRow(data[i], i + 1)]
            good     == SelectSeq(outcome, LAMBDA o : o.ok)
            bad      == SelectSeq(outcome, LAMBDA o : ~o.ok)
            appended == [i \in DOMAIN good |-> good[i].item]
        IN  [items  |-> SortByLineId(appended),
             errors |-> [i \in DOMAIN bad |-> bad[i].error]]

(***************************************************************************)
(* load_code_definitions                                                   *)
(***************************************************************************)
\* The loop over the catalog's rows: a later row of the same code replaces
\* an earlier one.
RECURSIVE load_code_definitions(_)
load_code_definitions(rows) ==
    IF rows = <<>> THEN <<>>
    ELSE LET row  == rows[Len(rows)]
             defs == load_code_definitions(SubSeq(rows, 1, Len(rows) - 1))
             def  == [code_type            |-> Strip(row.code_type),
                      official_description |-> Strip(row.official_description),
                      plain_english        |-> Strip(row.plain_english),
                      status               |-> Strip(row.status),
                      effective_date       |-> parse_date(row.effective_date)]
         IN  (Strip(row.code) :> def) @@ defs

\* parse_date raises ValueError on some row: the exception leaves run()
CatalogRaises(rows) ==
    \E i \in DOMAIN rows : Strip(rows[i].effective_date) \notin DOMAIN DateLiteral

(***************************************************************************)
(* evaluate_line                                                           *)
(***************************************************************************)
Placeholder == "Definition not provided in Code Pack."

\* notes after a trigger: set when empty, "; "-appended otherwise
AddNote(notes, note) == IF notes = "" THEN note ELSE notes \o "; " \o note

\* Variant of ResolveDefinition that tests status and effective date before
\* the code_type comparison.
ResolveDefinition_StatusFirst(item, defs) ==
    IF item.code \notin DOMAIN defs
    THEN [official |-> Placeholder, plain |-> Placeholder, notes |-> "",
          needs_clar |-> TRUE, clar_reasons |-> <<"Missing code definition">>]
    ELSE
    LET cd == defs[item.code] IN
        IF cd.status # "Active" \/ cd.effective_date > item.dos_date
        THEN [official |-> Placeholder, plain |-> Placeholder,
              notes |-> "Code is inactive or not effective for the date of service.",
              needs_clar |-> TRUE,
              clar_reasons |-> <<"Code inactive/not effective">>]
        ELSE IF item.code_type # cd.code_type
        THEN [official |-> Placeholder, plain |-> Placeholder,
              notes |-> "code_type mismatch (bill: " \o item.code_type
                        \o ", pack: " \o cd.code_type \o ")",
              needs_clar |-> TRUE, clar_reasons |-> <<"code_type mismatch">>]
        ELSE [official |-> cd.official_description,
              plain |-> cd.plain_english, notes |-> "",
              needs_clar |-> FALSE, clar_reasons |-> <<>>]

\* Rules 3-6: the definition-resolution branch
ResolveDefinition(item, defs) ==
    IF item.code \notin DOMAIN defs
    THEN [official |-> Placeholder, plain |-> Placeholder, notes |-> "",
          needs_clar |-> TRUE, clar_reasons |-> <<"Missing code definition">>]
    ELSE
    LET cd == defs[item.code] IN
        IF item.code_type # cd.code_type
        THEN [official |-> Placeholder, plain |-> Placeholder,
              notes |-> "code_type mismatch (bill: " \o item.code_type
                        \o ", pack: " \o cd.code_type \o ")",
              needs_clar |-> TRUE, clar_reasons |-> <<"code_type mismatch">>]
        ELSE IF cd.status # "Active" \/ cd.effective_date > item.dos_date
        THEN [official |-> Placeholder, plain |-> Placeholder,
              notes |-> "Code is inactive or not effective for the date of service.",
              needs_clar |-> TRUE,
              clar_reasons |-> <<"Code inactive/not effective">>]
        ELSE [official |-> cd.official_description,
              plain |-> cd.plain_english, notes |-> "",
              needs_clar |-> FALSE, clar_reasons |-> <<>>]

\* Variant of ZeroUnitTrigger that also fires on a charge of zero.
ZeroUnitTrigger_AnyCharge(item, r) ==
    IF item.units = 0 /\ item.charge >= 0
    THEN [r EXCEPT !.needs_clar = TRUE,
                   !.clar_reasons = Append(@, "units = 0 with charge > 0"),
                   !.notes = AddNote(@, "units = 0 but charge > 0")]
    ELSE r

\* Clarification trigger: units = 0 AND charge > 0
ZeroUnitTrigger(item, r) ==
    IF item.units = 0 /\ item.charge > 0
    THEN [r EXCEPT !.needs_clar = TRUE,
                   !.clar_reasons = Append(@, "units = 0 with charge > 0"),
                   !.notes = AddNote(@, "units = 0 but charge > 0")]
    ELSE r

\* Variant of ModifierTrigger that records the reason and the note without
\* raising needs_clar.
ModifierTrigger_ReasonOnly(item, r) ==
    IF item.code_type = "MOD" /\ item.charge > 0
    THEN [r EXCEPT !.clar_reasons = Append(@, "Modifier with charge > 0"),
                   !.notes = AddNote(@, "Modifier line has a charge > $0")]
    ELSE r

\* Clarification trigger: code_type MOD and charge > 0
ModifierTrigger(item, r) ==
    IF item.code_type = "MOD" /\ item.charge > 0
    THEN [r EXCEPT !.needs_clar = TRUE,
                   !.clar_reasons = Append(@, "Modifier with charge > 0"),
                   !.notes = AddNote(@, "Modifier line has a charge > $0")]
    ELSE r

evaluate_line(item, defs) ==
    LET r == ModifierTrigger(item,
                 ZeroUnitTrigger(item, ResolveDefinition(item, defs)))
    IN  [line_id               |-> item.line_id,
         date_of_service       |-> item.date_of_service,
         dos_date              |-> item.dos_date,
         code                  |-> item.code,
         code_type             |-> item.code_type,
         units                 |-> item.units,
         charge                |-> item.charge,
         bill_label            |-> item.bill_label,
         official_description  |-> r.official,
         plain_english         |-> r.plain,
         notes                 |-> r.notes,
         needs_clarification   |-> r.needs_clar,
         clarification_reasons |-> r.clar_reasons]

(***************************************************************************)
(* find_duplicates                                                         *)
(***************************************************************************)
DupKey(it) == <<it.date_of_service, it.code, it.units, it.charge>>

\* buckets: the dict in insertion order, one entry per key in the order of
\* the key's first item, each holding its line_ids in input order
Buckets(its) ==
    LET firsts == SelectSeq([i \in DOMAIN its |-> i],
                     LAMBDA i : \A j \in 1..(i - 1) :
                                   DupKey(its[j]) # DupKey(its[i]))
    IN  [b \in DOMAIN firsts |->
           LET key  == DupKey(its[firsts[b]])
               same == SelectSeq(its, LAMBDA it : DupKey(it) = key)
           IN  [key |-> key, lids |-> [k \in DOMAIN same |-> same[k].line_id]]]

\* groups.sort(key=lambda g: g["line_ids"][0])
SortByFirstLineId(groups) ==
    LET order == StableOrder([g \in DOMAIN groups |-> groups[g].line_ids[1]])
    IN  [r \in DOMAIN groups |-> groups[order[r]]]

find_duplicates(its) ==
    LET big    == SelectSeq(Buckets(its), LAMBDA b : Len(b.lids) >= 2)
        groups == [g \in DOMAIN big |->
                     [group_id |-> g,
                      line_ids |-> Sorted(big[g].lids),
                      dos      |-> big[g].key[1],
                      code     |-> big[g].key[2],
                      units    |-> big[g].key[3],
                      charge   |-> big[g].key[4]]]
        sorted == SortByFirstLineId(groups)
    IN  [idx \in DOMAIN sorted |-> [sorted[idx] EXCEPT !.group_id = idx]]

(***************************************************************************)
(* Formatting                                                              *)
(***************************************************************************)
Abs(n) == IF n < 0 THEN 0 - n ELSE n

Pad2(n) == IF n < 10 THEN "0" \o ToString(n) ELSE ToString(n)

Pad3(n) == IF n < 10 THEN "00" \o ToString(n)
           ELSE IF n < 100 THEN "0" \o ToString(n) ELSE ToString(n)

RECURSIVE Grouped(_)
Grouped(n) ==
    IF n < 1000 THEN ToString(n)
    ELSE Grouped(n \div 1000) \o "," \o Pad3(n % 1000)

\* f"{value:,.2f}" of an amount held in cents
FormatAmount(cents) ==
    (IF cents < 0 THEN "-" ELSE "") \o Grouped(Abs(cents) \div 100)
        \o "." \o Pad2(Abs(cents) % 100)

\* format_currency of a string: the float it parses to, re-formatted, or the
\* string itself behind a "$" when float() rejects it.  A string FormatAmount
\* produced parses back to the same amount, so both branches agree on it.
format_currency(value) ==
    IF Strip(value) \in DOMAIN ChargeLiteral
    THEN "$" \o FormatAmount(ChargeLiteral[Strip(value)])
    ELSE "$" \o value

RECURSIVE SumCharges(_)
SumCharges(es) ==
    IF es = <<>> THEN 0 ELSE es[1].charge + SumCharges(Tail(es))

\* header.get(key, default)
HeaderGet(h, key, default) == IF key \in DOMAIN h THEN h[key] ELSE default

(***************************************************************************)
(* Output sections.  A table row is the sequence of its cells, a section   *)
(* its title and its rows.                                                 *)
(***************************************************************************)
build_input_problems(errors) ==
    [title |-> "**Input Problems**",
     rows  |-> [i \in DOMAIN errors |->
                  <<ToString(errors[i].row_number), errors[i].line_id,
                    errors[i].reason>>]]

build_section1(h) ==
    [title |-> "SECTION 1: Bill Header Summary",
     rows  |-> << <<"Patient Name", HeaderGet(h, "patient_name", "N/A")>>,
                  <<"Account Number", HeaderGet(h, "account_number", "N/A")>>,
                  <<"Facility / Provider", HeaderGet(h, "facility", "N/A")>>,
                  <<"Statement Date", HeaderGet(h, "statement_date", "N/A")>>,
                  <<"Total Billed",
                    format_currency(HeaderGet(h, "total_billed", "N/A"))>> >>]

build_section2(evs) ==
    [title |-> "SECTION 2: Plain-English Line Item Table",
     rows  |-> [i \in DOMAIN evs |->
                  <<ToString(evs[i].line_id), evs[i].date_of_service,
                    evs[i].code, evs[i].code_type,
                    evs[i].official_description, evs[i].plain_english,
                    ToString(evs[i].units),
                    "$" \o FormatAmount(evs[i].charge), evs[i].notes>>]]

build_section3(groups) ==
    [title |-> "SECTION 3: Duplicates Table",
     rows  |-> [i \in DOMAIN groups |->
                  <<ToString(groups[i].group_id),
                    Join([k \in DOMAIN groups[i].line_ids |->
                            ToString(groups[i].line_ids[k])], ", "),
                    "DOS=" \o groups[i].dos \o ", Code=" \o groups[i].code
                      \o ", Units=" \o ToString(groups[i].units)
                      \o ", Charge=$" \o FormatAmount(groups[i].charge)>>],
     none  |-> groups = <<>>]

build_section4(evs) ==
    LET clar_items == SelectSeq(evs, LAMBDA e : e.needs_clarification)
    IN  [title |-> "SECTION 4: Needs Clarification List",
         rows  |-> [i \in DOMAIN clar_items |->
                      "Clarify: Line " \o ToString(clar_items[i].line_id)
                      \o " (Code " \o clar_items[i].code \o ", DOS "
                      \o clar_items[i].date_of_service \o ") - "
                      \o Join(clar_items[i].clarification_reasons, "; ")
                      \o "."],
         none  |-> clar_items = <<>>]

CountType(evs, t) == Len(SelectSeq(evs, LAMBDA e : e.code_type = t))

build_section5(evs, groups, h) ==
    [title |-> "SECTION 5: Patient-Friendly Summary Paragraph",
     total_lines  |-> Len(evs),
     dos_count    |-> Cardinality({evs[i].date_of_service : i \in DOMAIN evs}),
     total_charge |-> "$" \o FormatAmount(SumCharges(evs)),
     dup_count    |-> Len(groups),
     clar_count   |-> Len(SelectSeq(evs, LAMBDA e : e.needs_clarification)),
     proc_count   |-> CountType(evs, "PROC"),
     drug_count   |-> CountType(evs, "DRUG"),
     rev_count    |-> CountType(evs, "REV"),
     mod_count    |-> CountType(evs, "MOD")]

NoOutput == [kind |-> "none"]

ErrorDocument(message, lines) ==
    [kind |-> "error", message |-> message, lines |-> lines]

(***************************************************************************)
(* run(): one action per statement group, in program order.                *)
(***************************************************************************)
\* os.path.isfile(code_defs_path) is false
CatalogMissing ==
    /\ pc = "load"
    /\ ~catalog_file.exists
    /\ output' = ErrorDocument("Code definitions file not found", <<>>)
    /\ pc' = "done"
    /\ UNCHANGED <<catalog_file, header, line_items_text, code_defs, items,
                   parse_errors, evaluated, dup_groups, called>>

\* load_code_definitions raises: run() returns nothing
CatalogLoadRaises ==
    /\ pc = "load"
    /\ catalog_file.exists
    /\ CatalogRaises(catalog_file.rows)
    /\ pc' = "raised"
    /\ called' = called \cup {"load_code_definitions"}
    /\ UNCHANGED <<catalog_file, header, line_items_text, code_defs, items,
                   parse_errors, evaluated, dup_groups, output>>

LoadCatalog ==
    /\ pc = "load"
    /\ catalog_file.exists
    /\ ~CatalogRaises(catalog_file.rows)
    /\ code_defs' = load_code_definitions(catalog_file.rows)
    /\ pc' = "parse"
    /\ called' = called \cup {"load_code_definitions"}
    /\ UNCHANGED <<catalog_file, header, line_items_text, items,
                   parse_errors, evaluated, dup_groups, output>>

ParseLineItems ==
    /\ pc = "parse"
    /\ LET r == parse_line_items(line_items_text)
       IN  /\ items' = r.items
           /\ parse_errors' = r.errors
    /\ pc' = "check"
    /\ called' = called \cup {"parse_line_items"}
    /\ UNCHANGED <<catalog_file, header, line_items_text, code_defs,
                   evaluated, dup_groups, output>>

\* Variant of AllRowsMalformed that lists the first error only.
AllRowsMalformed_FirstOnly ==
    /\ pc = "check"
    /\ items = <<>>
    /\ parse_errors # <<>>
    /\ output' = ErrorDocument(
                    "No valid line items could be parsed. Details below:",
                    <<"- Row " \o ToString(parse_errors[1].row_number)
                       \o " (line_id " \o parse_errors[1].line_id \o "): "
                       \o parse_errors[1].reason>>)
    /\ pc' = "done"
    /\ UNCHANGED <<catalog_file, header, line_items_text, code_defs, items,
                   parse_errors, evaluated, dup_groups, called>>

\* if not items and parse_errors
AllRowsMalformed ==
    /\ pc = "check"
    /\ items = <<>>
    /\ parse_errors # <<>>
    /\ output' = ErrorDocument(
                    "No valid line items could be parsed. Details below:",
                    [i \in DOMAIN parse_errors |->
                       "- Row " \o ToString(parse_errors[i].row_number)
                       \o " (line_id " \o parse_errors[i].line_id \o "): "
                       \o parse_errors[i].reason])
    /\ pc' = "done"
    /\ UNCHANGED <<catalog_file, header, line_items_text, code_defs, items,
                   parse_errors, evaluated, dup_groups, called>>

\* if not items and not parse_errors
NoDataRows ==
    /\ pc = "check"
    /\ items = <<>>
    /\ parse_errors = <<>>
    /\ output' = ErrorDocument(
                    "No valid line items could be parsed from the input.",
                    <<>>)
    /\ pc' = "done"
    /\ UNCHANGED <<catalog_file, header, line_items_text, code_defs, items,
                   parse_errors, evaluated, dup_groups, called>>

EvaluateLines ==
    /\ pc = "check"
    /\ items # <<>>
    /\ evaluated' = [i \in DOMAIN items |-> evaluate_line(items[i], code_defs)]
    /\ pc' = "duplicates"
    /\ called' = called \cup {"evaluate_line"}
    /\ UNCHANGED <<catalog_file, header, line_items_text, code_defs, items,
                   parse_errors, dup_groups, output>>

FindDuplicates ==
    /\ pc = "duplicates"
    /\ dup_groups' = find_duplicates(items)
    /\ pc' = "backfill"
    /\ called' = called \cup {"find_duplicates"}
    /\ UNCHANGED <<catalog_file, header, line_items_text, code_defs, items,
                   parse_errors, evaluated, output>>

\* Compute total for header if not provided or if placeholder
BackfillTotal ==
    /\ pc = "backfill"
    /\ LET tb == HeaderGet(header, "total_billed", "")
       IN  header' = IF tb = "" \/ tb \in {"N/A", "_No response_"}
                     THEN ("total_billed" :> FormatAmount(SumCharges(evaluated)))
                          @@ header
                     ELSE header
    /\ pc' = "render"
    /\ UNCHANGED <<catalog_file, line_items_text, code_defs, items,
                   parse_errors, evaluated, dup_groups, output, called>>

\* Variant of Render that never prepends the Input Problems section.
Render_NoInputProblems ==
    /\ pc = "render"
    /\ output' =
         [kind  |-> "report",
          parts |-> <<build_section1(header),
                      build_section2(evaluated),
                      build_section3(dup_groups),
                      build_section4(evaluated),
                      build_section5(evaluated, dup_groups, header)>>]
    /\ pc' = "done"
    /\ UNCHANGED <<catalog_file, header, line_items_text, code_defs, items,
                   parse_errors, evaluated, dup_groups, called>>

Render ==
    /\ pc = "render"
    /\ output' =
         [kind  |-> "report",
          parts |-> (IF parse_errors # <<>>
                     THEN <<build_input_problems(parse_errors)>> ELSE <<>>)
                    \o <<build_section1(header),
                         build_section2(evaluated),
                         build_section3(dup_groups),
                         build_section4(evaluated),
                         build_section5(evaluated, dup_groups, header)>>]
    /\ pc' = "done"
    /\ UNCHANGED <<catalog_file, header, line_items_text, code_defs, items,
                   parse_errors, evaluated, dup_groups, called>>

(***************************************************************************)
(* Inputs.                                                                 *)
(***************************************************************************)
SeqsUpTo(S, n) == UNION {[1..k -> S] : k \in 0..n}

AllColumns == REQUIRED_COLUMNS \cup {"bill_label"}

Row(lid, dos, code, ct, units, charge) ==
    [line_id |-> lid, date_of_service |-> dos, code |-> code,
     code_type |-> ct, units |-> units, charge |-> charge,
     bill_label |-> "visit"]

BlankLine == <<>>

\* The lines a pipeline run draws from: two pairs of rows that duplicate each
\* other, the second pair re-using line_id 1 (written "01") and being charged
\* modifiers with units 0; a malformed row; a blank line.
PipelineRows ==
    { Row("1",   "2024-05-01", "99213", "PROC", "1", "50.00"),
      Row(" 2 ", "2024-05-01", "99213", "PROC", "1", "$50.00"),
      Row("01",  "2024-5-1",   "25",    "MOD",  "0", "75.00"),
      Row("3",   "2024-5-1",   "25",    "MOD",  "0", "75.00"),
      Row("2",   "2024-05-01", "99213", "PROC", "1", "abc"),
      BlankLine }

\* The lines a parser-only run draws from: a passing or a failing value in
\* each checked column, at most two columns failing; a line of blanks; a
\* blank line.
FailingValue ==
    [line_id |-> "x", date_of_service |-> "2024-13-01", code |-> "   ",
     code_type |-> "", units |-> "1.5", charge |-> "abc"]

ParserRows ==
    {r \in [line_id : {"7", "x"},
            date_of_service : {"2024-05-01", "2024-13-01"},
            code : {"99213", "   "}, code_type : {"PROC", ""},
            units : {"1", "1.5"}, charge : {"$1,250.00", "abc"}] :
        Cardinality({c \in DOMAIN r : r[c] = FailingValue[c]}) <= 2}
    \cup {[line_id |-> "   "], BlankLine}

\* Header lines: complete; complete with a padded name; each with columns
\* missing.
CompleteHeaders == {AllColumns, REQUIRED_COLUMNS,
                    (REQUIRED_COLUMNS \ {"charge"}) \cup {" charge"}}

IncompleteHeaders ==
    {REQUIRED_COLUMNS \ {"charge"},
     {"line_id", "code", "units"},
     {"bill_label"},
     REQUIRED_COLUMNS \ {"line_id", "date_of_service"}}

\* A line as the reader maps it under the header's field names
UnderHeader(row, fieldnames) ==
    [c \in {f \in fieldnames :
               Strip(f) \in DOMAIN row /\ (f = Strip(f) \/ Strip(f) \notin fieldnames)}
       |-> row[Strip(c)]]

BlankText == [blank |-> TRUE, fieldnames |-> {}, rows |-> <<>>]

Texts(headers, rowset, n) ==
    {BlankText} \cup
    {[blank      |-> FALSE,
      fieldnames |-> f,
      rows       |-> [i \in DOMAIN rs |-> UnderHeader(rs[i], f)]] :
        f \in headers, rs \in SeqsUpTo(rowset, n)}

CatalogRow(code, ct, status, eff) ==
    [code |-> code, code_type |-> ct,
     official_description |-> "Official " \o Strip(code),
     plain_english |-> "Plain " \o Strip(code),
     status |-> status, effective_date |-> eff]

Catalogs ==
    { [exists |-> FALSE, rows |-> <<>>],
      [exists |-> TRUE,
       rows |-> <<CatalogRow("99213", "REV", "Inactive", "2024-05-02"),
                  CatalogRow(" 2 ", "MOD", "Active", "2019-12-31"),
                  CatalogRow("99213", "PROC", "Active", "2024-05-01"),
                  CatalogRow("25", "MOD", "Active", "2019-12-31")>>],
      [exists |-> TRUE,
       rows |-> <<CatalogRow("99213", "REV", "Active", "2019-12-31"),
                  CatalogRow("25", "MOD", "Active", "2024-05-02")>>],
      [exists |-> TRUE,
       rows |-> <<CatalogRow("99213", "PROC", "Active", "n/a")>>] }

BaseHeader ==
    [patient_name |-> "Pat Doe", account_number |-> "A-1",
     facility |-> "General", statement_date |-> "2024-06-01"]

Headers ==
    {BaseHeader} \cup
    {("total_billed" :> tb) @@ BaseHeader :
        tb \in {"", "N/A", "_No response_", "$1,250.00"}}

(***************************************************************************)
(* Spec: a whole run().                                                    *)
(***************************************************************************)
Init ==
    /\ pc = "load"
    /\ catalog_file \in Catalogs
    /\ header \in Headers
    /\ line_items_text \in
          Texts({AllColumns}, PipelineRows, MaxRows)
          \cup Texts({REQUIRED_COLUMNS \ {"charge"}}, PipelineRows, 1)
    /\ code_defs = <<>>
    /\ items = <<>>
    /\ parse_errors = <<>>
    /\ evaluated = <<>>
    /\ dup_groups = <<>>
    /\ output = NoOutput
    /\ called = {}

Next ==
    \/ CatalogMissing
    \/ CatalogLoadRaises
    \/ LoadCatalog
    \/ ParseLineItems
    \/ AllRowsMalformed
    \/ NoDataRows
    \/ EvaluateLines
    \/ FindDuplicates
    \/ BackfillTotal
    \/ Render

Spec == Init /\ [][Next]_vars

(***************************************************************************)
(* SpecParse: parse_line_items alone, on every text of the parser alphabet.*)
(***************************************************************************)
InitParse ==
    /\ pc = "parse"
    /\ catalog_file = [exists |-> TRUE, rows |-> <<>>]
    /\ header = BaseHeader
    /\ line_items_text \in
          Texts({REQUIRED_COLUMNS}, ParserRows, MaxParseRows)
          \cup Texts(CompleteHeaders, PipelineRows, MaxParseRows)
          \cup Texts(IncompleteHeaders, PipelineRows, MaxParseRows)
    /\ code_defs = <<>>
    /\ items = <<>>
    /\ parse_errors = <<>>
    /\ evaluated = <<>>
    /\ dup_groups = <<>>
    /\ output = NoOutput
    /\ called = {"load_code_definitions"}

NextParse == ParseLineItems

SpecParse == InitParse /\ [][NextParse]_vars

(***************************************************************************)
(* SpecEval: evaluate_line alone, on every item and catalog of a small     *)
(* alphabet.                                                               *)
(***************************************************************************)
EvalItems ==
    [line_id : {1}, date_of_service : {"2024-05-01"}, dos_date : {20240501},
     code : {"99213", "00000"}, code_type : {"PROC", "MOD", "REV"},
     units : {0, 1}, charge : {0 - 500, 0, 5000}, bill_label : {""}]

EvalDefinitions ==
    [code_type : {"PROC", "MOD"},
     official_description : {"Office visit, established patient"},
     plain_english : {"A regular check-up"},
     status : {"Active", "Inactive", "Retired"},
     effective_date : {20191231, 20240501, 20240502}]

InitEval ==
    /\ pc = "check"
    /\ catalog_file = [exists |-> TRUE, rows |-> <<>>]
    /\ header = BaseHeader
    /\ line_items_text = BlankText
    /\ code_defs \in {<<>>} \cup {("99213" :> d) : d \in EvalDefinitions}
    /\ items \in {<<it>> : it \in EvalItems}
    /\ parse_errors = <<>>
    /\ evaluated = <<>>
    /\ dup_groups = <<>>
    /\ output = NoOutput
    /\ called = {"load_code_definitions", "parse_line_items"}

NextEval == EvaluateLines

SpecEval == InitEval /\ [][NextEval]_vars

(***************************************************************************)
(* Properties of evaluate_line (checked under SpecEval).                   *)
(***************************************************************************)
Evaluated == pc = "duplicates"

\* The branch of the definition resolution an item falls in, read off the
\* item and the catalog: 1 unknown code, 2 type mismatch, 3 inactive or not
\* yet effective, 4 valid.
BranchOf(it) ==
    IF it.code \notin DOMAIN code_defs THEN 1
    ELSE IF it.code_type # code_defs[it.code].code_type THEN 2
    ELSE IF \/ code_defs[it.code].status # "Active"
            \/ code_defs[it.code].effective_date > it.dos_date THEN 3
    ELSE 4

ResolutionReasons ==
    <<"Missing code definition", "code_type mismatch",
      "Code inactive/not effective">>

ResolutionReasonsIn(e) ==
    SelectSeq(e.clarification_reasons,
              LAMBDA r : \E k \in DOMAIN ResolutionReasons :
                            r = ResolutionReasons[k])

ZeroUnitFires(it) == it.units = 0 /\ it.charge > 0

ModifierFires(it) == it.code_type = "MOD" /\ it.charge > 0

MismatchNote(it) ==
    "code_type mismatch (bill: " \o it.code_type \o ", pack: "
        \o code_defs[it.code].code_type \o ")"

\* C1: evaluate_line resolves the definition by exactly one of four branches
\* in the precedence unknown code, type mismatch, inactive/not effective,
\* valid: branches 1-3 give the placeholder descriptions and exactly one
\* resolution reason (their own), the mismatch branch a note naming both
\* types, the unknown-code branch no note of its own, and the valid branch
\* copies the catalog's descriptions and adds no resolution reason.
C1_DefinitionResolution ==
    Evaluated =>
      \A i \in DOMAIN items :
        LET it    == items[i]
            e     == evaluated[i]
            b     == BranchOf(it)
            quiet == ~ZeroUnitFires(it) /\ ~ModifierFires(it)
        IN  /\ b \in {1, 2, 3} =>
                 /\ e.official_description = Placeholder
                 /\ e.plain_english = Placeholder
                 /\ ResolutionReasonsIn(e) = <<ResolutionReasons[b]>>
                 /\ e.clarification_reasons[1] = ResolutionReasons[b]
            /\ (b = 1 /\ quiet) => e.notes = ""
            /\ (b = 2 /\ quiet) => e.notes = MismatchNote(it)
            /\ b = 4 =>
                 /\ e.official_description
                      = code_defs[it.code].official_description
                 /\ e.plain_english = code_defs[it.code].plain_english
                 /\ ResolutionReasonsIn(e) = <<>>
                 /\ quiet => (e.notes = "" /\ e.clarification_reasons = <<>>)

\* Witness of C1: a code whose bill type differs from the catalog's and whose
\* catalog entry is also inactive has been evaluated and reports the mismatch
\* alone.
C1_Witness ==
    /\ Evaluated
    /\ \E i \in DOMAIN items :
         /\ items[i].code \in DOMAIN code_defs
         /\ items[i].code_type # code_defs[items[i].code].code_type
         /\ code_defs[items[i].code].status # "Active"
         /\ evaluated[i].clarification_reasons = <<"code_type mismatch">>

\* The reasons and notes the claim expects, in its order
ExpectedReasons(it) ==
    (IF BranchOf(it) = 4 THEN <<>> ELSE <<ResolutionReasons[BranchOf(it)]>>)
    \o (IF ZeroUnitFires(it) THEN <<"units = 0 with charge > 0">> ELSE <<>>)
    \o (IF ModifierFires(it) THEN <<"Modifier with charge > 0">> ELSE <<>>)

ExpectedNotes(it) ==
    (IF BranchOf(it) = 2 THEN <<MismatchNote(it)>>
     ELSE IF BranchOf(it) = 3
          THEN <<"Code is inactive or not effective for the date of service.">>
     ELSE <<>>)
    \o (IF ZeroUnitFires(it) THEN <<"units = 0 but charge > 0">> ELSE <<>>)
    \o (IF ModifierFires(it) THEN <<"Modifier line has a charge > $0">>
        ELSE <<>>)

\* C2: the zero-unit trigger fires iff units = 0 and charge > 0, the modifier
\* trigger iff the bill's code_type is MOD and charge > 0, whatever the
\* resolution branch; clarification_reasons is the resolution reason (if
\* any), then the zero-unit reason, then the modifier reason, none twice, and
\* notes is the "; "-joined list of the fired notes in that order.
C2_AdditiveTriggers ==
    Evaluated =>
      \A i \in DOMAIN items :
        LET it == items[i]
            e  == evaluated[i]
            rs == e.clarification_reasons
        IN  /\ (\E k \in DOMAIN rs : rs[k] = "units = 0 with charge > 0")
                 <=> ZeroUnitFires(it)
            /\ (\E k \in DOMAIN rs : rs[k] = "Modifier with charge > 0")
                 <=> ModifierFires(it)
            /\ rs = ExpectedReasons(it)
            /\ \A k, l \in DOMAIN rs : k # l => rs[k] # rs[l]
            /\ e.notes = Join(ExpectedNotes(it), "; ")

\* Witness of C2: a charged modifier with units 0 whose type mismatches the
\* catalog has been evaluated: all three reasons, in order.
C2_Witness ==
    /\ Evaluated
    /\ \E i \in DOMAIN items :
         /\ BranchOf(items[i]) = 2
         /\ ZeroUnitFires(items[i]) /\ ModifierFires(items[i])
         /\ Len(evaluated[i].clarification_reasons) = 3

\* The bullet Section 4 renders for an evaluated item
ClarifyBullet(e) ==
    "Clarify: Line " \o ToString(e.line_id) \o " (Code " \o e.code
    \o ", DOS " \o e.date_of_service \o ") - "
    \o Join(e.clarification_reasons, "; ") \o "."

\* The evaluated items that carry at least one reason, in order
WithReasons == SelectSeq(evaluated, LAMBDA e : e.clarification_reasons # <<>>)

\* C12: for every evaluated item, needs_clarification is true iff
\* clarification_reasons is non-empty, and non-empty notes imply
\* needs_clarification; hence Section 4 has one bullet per item that carries
\* a reason, in order, each with a non-empty reason list, and shows its
\* "no items" line iff no item carries a reason.
C12_ClarificationFlag ==
    "evaluate_line" \in called =>
      /\ \A i \in DOMAIN evaluated :
           /\ evaluated[i].needs_clarification
                <=> evaluated[i].clarification_reasons # <<>>
           /\ evaluated[i].notes # "" => evaluated[i].needs_clarification
      /\ LET s4 == build_section4(evaluated)
         IN  /\ Len(s4.rows) = Len(WithReasons)
             /\ \A i \in DOMAIN s4.rows : s4.rows[i] = ClarifyBullet(WithReasons[i])
             /\ s4.none <=> WithReasons = <<>>
      /\ output.kind = "report" =>
           \E k \in DOMAIN output.parts :
               output.parts[k] = build_section4(evaluated)

\* Witness of C12: a modifier line with a charge whose definition resolved
\* as valid has been evaluated: the modifier trigger alone flags it, with one
\* reason and its note, and Section 4 renders its bullet.
C12_Witness ==
    /\ "evaluate_line" \in called
    /\ \E i \in DOMAIN evaluated :
         /\ BranchOf(items[i]) = 4
         /\ ModifierFires(items[i]) /\ ~ZeroUnitFires(items[i])
         /\ evaluated[i].needs_clarification
         /\ evaluated[i].clarification_reasons = <<"Modifier with charge > 0">>
         /\ evaluated[i].notes # ""
    /\ build_section4(evaluated).rows # <<>>

(***************************************************************************)
(* Properties of find_duplicates and of the order of the items, checked    *)
(* under Spec on the lists parse_line_items returns.                       *)
(***************************************************************************)
Parsed == "parse_line_items" \in called

DupRan == "find_duplicates" \in called

ListedIn(lid, g) == \E k \in DOMAIN g.line_ids : g.line_ids[k] = lid

GroupKey(g) == <<g.dos, g.code, g.units, g.charge>>

Occurrences(seq, x) == Cardinality({k \in DOMAIN seq : seq[k] = x})

Ascending(ints) ==
    \A k, l \in DOMAIN ints : k < l => ints[k] <= ints[l]

StrictlyAscending(ints) ==
    \A k, l \in DOMAIN ints : k < l => ints[k] < ints[l]

LineIds(its) == [i \in DOMAIN its |-> its[i].line_id]

MinOf(ints) == CHOOSE m \in {ints[k] : k \in DOMAIN ints} :
                   \A k \in DOMAIN ints : m <= ints[k]

\* The valid rows carry pairwise distinct line_ids
LineIdsDistinct ==
    \A i, j \in DOMAIN items : i # j => items[i].line_id # items[j].line_id

\* The other orders parse_line_items could have returned the same items in
\* (a reordering of the rows that keeps them sorted by line_id)
Reorderings ==
    {p \in [DOMAIN items -> DOMAIN items] :
        /\ \A i, j \in DOMAIN items : i # j => p[i] # p[j]
        /\ Ascending([i \in DOMAIN items |-> items[p[i]].line_id])}

\* C3: two items have their line_ids in the same returned group iff their
\* (date_of_service, code, units, charge) tuples are equal; each group's
\* line_ids are the whole equivalence class of its key, sorted ascending, and
\* every group has at least 2 members.
C3_GroupingByKey ==
    DupRan =>
      /\ \A i, j \in DOMAIN items :
           i # j =>
             ((\E g \in DOMAIN dup_groups :
                  /\ ListedIn(items[i].line_id, dup_groups[g])
                  /\ ListedIn(items[j].line_id, dup_groups[g]))
              <=> DupKey(items[i]) = DupKey(items[j]))
      /\ \A g \in DOMAIN dup_groups :
           LET grp == dup_groups[g] IN
             /\ Ascending(grp.line_ids)
             /\ Len(grp.line_ids) >= 2
             /\ \A i \in DOMAIN items :
                  Occurrences(grp.line_ids, items[i].line_id)
                    = Cardinality({j \in DOMAIN items :
                         /\ DupKey(items[j]) = GroupKey(grp)
                         /\ items[j].line_id = items[i].line_id})

\* C4: no two returned groups share a line_id, and all items a group's
\* line_ids refer to have the same (date_of_service, code, units, charge).
C4_GroupsDisjoint ==
    DupRan =>
      /\ \A g, h \in DOMAIN dup_groups :
           g # h =>
             ~\E k \in DOMAIN dup_groups[g].line_ids :
                 ListedIn(dup_groups[g].line_ids[k], dup_groups[h])
      /\ \A g \in DOMAIN dup_groups :
           \A i, j \in DOMAIN items :
             (/\ ListedIn(items[i].line_id, dup_groups[g])
              /\ ListedIn(items[j].line_id, dup_groups[g]))
             => DupKey(items[i]) = DupKey(items[j])

\* C5: the group_ids are 1..N, in ascending order of the groups' minimum
\* line_id, and the numbering does not depend on the order in which the keys
\* were first met (the same items in another order give the same groups).
C5_GroupNumbering ==
    DupRan =>
      /\ \A g \in DOMAIN dup_groups : dup_groups[g].group_id = g
      /\ \A g, h \in DOMAIN dup_groups :
           g < h => MinOf(dup_groups[g].line_ids)
                      <= MinOf(dup_groups[h].line_ids)
      /\ \A p \in Reorderings :
           find_duplicates([i \in DOMAIN items |-> items[p[i]]]) = dup_groups

\* C7: whenever parsing yields an item, the line_ids of the parsed items, of
\* the evaluated items and of the rows of Section 2 are strictly ascending,
\* and Section 2 lists the sorted items row for row.
Section2Rows ==
    LET at == IF parse_errors # <<>> THEN 3 ELSE 2
    IN  output.parts[at].rows

C7_StrictlyAscendingLineIds ==
    (Parsed /\ items # <<>>) =>
      /\ StrictlyAscending(LineIds(items))
      /\ "evaluate_line" \in called => StrictlyAscending(LineIds(evaluated))
      /\ output.kind = "report" =>
           /\ Len(Section2Rows) = Len(items)
           /\ \A i \in DOMAIN items :
                Section2Rows[i][1] = ToString(items[i].line_id)

\* What TLC confirms of C3, C4, C5 and C7 on the runs whose valid rows carry
\* pairwise distinct line_ids.
WithDistinctLineIds ==
    LineIdsDistinct =>
      /\ C3_GroupingByKey
      /\ C4_GroupsDisjoint
      /\ C5_GroupNumbering
      /\ C7_StrictlyAscendingLineIds

(***************************************************************************)
(* Properties of parse_line_items (checked under SpecParse).               *)
(***************************************************************************)
SixColumns ==
    {"line_id", "date_of_service", "code", "code_type", "units", "charge"}

\* The columns the header line names, and whether it names all six
HeaderNames == {Strip(f) : f \in line_items_text.fieldnames}

HeaderComplete == ~line_items_text.blank /\ SixColumns \subseteq HeaderNames

\* The data rows of the text: its non-blank lines after the header, in order
TextDataRows == SelectSeq(line_items_text.rows, LAMBDA r : r # BlankLine)

\* The six checks, in the claimed order, on the raw cells of a row
Passes(row, k) ==
    CASE k = 1 -> RawField(row, "line_id") \in DOMAIN IntLiteral
      [] k = 2 -> RawField(row, "date_of_service") \in DOMAIN DateLiteral
      [] k = 3 -> RawField(row, "code") # ""
      [] k = 4 -> RawField(row, "code_type") # ""
      [] k = 5 -> RawField(row, "units") \in DOMAIN IntLiteral
      [] k = 6 -> RawField(row, "charge") \in DOMAIN ChargeLiteral

\* 0 when the row passes every check, else the first check it fails
FirstFailing(row) ==
    IF \A k \in 1..6 : Passes(row, k) THEN 0
    ELSE CHOOSE k \in 1..6 :
            ~Passes(row, k) /\ \A j \in 1..(k - 1) : Passes(row, j)

ReasonOfCheck(row, k) ==
    CASE k = 1 -> "Invalid or missing line_id: '"
                    \o RawField(row, "line_id") \o "'"
      [] k = 2 -> "Invalid date_of_service: '"
                    \o RawField(row, "date_of_service") \o "'"
      [] k = 3 -> "Missing code value"
      [] k = 4 -> "Missing code_type value"
      [] k = 5 -> "Invalid units: '" \o RawField(row, "units") \o "'"
      [] k = 6 -> "Invalid charge: '" \o RawField(row, "charge") \o "'"

\* The positions (among the data rows) of the rows that fail / pass
FailingRows ==
    SelectSeq([i \in DOMAIN TextDataRows |-> i],
              LAMBDA i : FirstFailing(TextDataRows[i]) # 0)

PassingRows ==
    SelectSeq([i \in DOMAIN TextDataRows |-> i],
              LAMBDA i : FirstFailing(TextDataRows[i]) = 0)

\* C6: under a complete header every data row has exactly one outcome: one
\* LineItem when it passes the six checks, else one ParseError whose reason
\* is that of the first failing check in the order line_id,
\* date_of_service, code, code_type, units, charge; items and errors
\* together count the data rows, and an error's row_number is the row's
\* position counting the header as row 1.
C6_OneOutcomePerRow ==
    (Parsed /\ HeaderComplete) =>
      /\ Len(items) + Len(parse_errors) = Len(TextDataRows)
      /\ Len(parse_errors) = Len(FailingRows)
      /\ Len(items) = Len(PassingRows)
      /\ \A k \in DOMAIN parse_errors :
           LET row == TextDataRows[FailingRows[k]] IN
             /\ parse_errors[k].row_number = FailingRows[k] + 1
             /\ parse_errors[k].row_number >= 2
             /\ parse_errors[k].reason = ReasonOfCheck(row, FirstFailing(row))
      /\ \A k \in DOMAIN PassingRows :
           LET row == TextDataRows[PassingRows[k]] IN
             \E i \in DOMAIN items :
               /\ items[i].line_id = IntLiteral[RawField(row, "line_id")]
               /\ items[i].date_of_service = RawField(row, "date_of_service")
               /\ items[i].code = RawField(row, "code")
               /\ items[i].code_type = RawField(row, "code_type")
               /\ items[i].units = IntLiteral[RawField(row, "units")]
               /\ items[i].charge = ChargeLiteral[RawField(row, "charge")]

\* Witness of C6: a text with a complete header has been parsed into an item
\* and an error, the error being for a row that fails the code_type check
\* and the units check and is reported for code_type.
C6_Witness ==
    /\ Parsed /\ HeaderComplete
    /\ items # <<>>
    /\ \E k \in DOMAIN parse_errors :
         LET row == TextDataRows[FailingRows[k]] IN
           /\ ~Passes(row, 4) /\ ~Passes(row, 5)
           /\ parse_errors[k].reason = "Missing code_type value"
           /\ parse_errors[k].row_number = 3

\* The orderings of a set of column names
Orderings(cols) ==
    {q \in [1..Cardinality(cols) -> cols] :
        \A i, j \in 1..Cardinality(cols) : i # j => q[i] # q[j]}

\* C8: when the header of a non-empty text lacks any of the six required
\* columns, parse_line_items returns no item and exactly one error, with
\* row_number 0, line_id "N/A" and a reason naming every missing column,
\* whatever the data rows are.
C8_MissingColumnsShortCircuit ==
    (Parsed /\ ~line_items_text.blank /\ ~HeaderComplete) =>
      /\ items = <<>>
      /\ Len(parse_errors) = 1
      /\ parse_errors[1].row_number = 0
      /\ parse_errors[1].line_id = "N/A"
      /\ \E q \in Orderings(SixColumns \ HeaderNames) :
           parse_errors[1].reason
             = "Missing required column(s): " \o Join(q, ", ")

\* Witness of C8: a text whose header lacks charge and whose data rows
\* include one that would otherwise parse has been parsed.
C8_Witness ==
    /\ Parsed
    /\ ~line_items_text.blank
    /\ "charge" \notin HeaderNames
    /\ \E i \in DOMAIN TextDataRows :
         \A k \in 1..5 : Passes(TextDataRows[i], k)
    /\ Len(parse_errors) = 1
    /\ parse_errors[1].row_number = 0

(***************************************************************************)
(* Properties of run() (checked under Spec).                               *)
(***************************************************************************)
Returned == pc = "done"

SectionTitles ==
    <<"SECTION 1: Bill Header Summary",
      "SECTION 2: Plain-English Line Item Table",
      "SECTION 3: Duplicates Table",
      "SECTION 4: Needs Clarification List",
      "SECTION 5: Patient-Friendly Summary Paragraph">>

\* C9: when the catalog file exists and parsing yields no valid item, run
\* returns an error-only document with no section: with at least one parse
\* error the "all rows malformed" message listing every error's row number,
\* line_id and reason, with none the generic "no data rows" message;
\* evaluate_line and find_duplicates are never called.
C9_ZeroItemsErrorDocument ==
    (catalog_file.exists /\ Parsed /\ items = <<>>) =>
      /\ pc \in {"check", "done"}
      /\ "evaluate_line" \notin called /\ evaluated = <<>>
      /\ "find_duplicates" \notin called /\ dup_groups = <<>>
      /\ Returned =>
           /\ output.kind = "error"
           /\ DOMAIN output = {"kind", "message", "lines"}
           /\ parse_errors # <<>> =>
                /\ output.message
                     = "No valid line items could be parsed. Details below:"
                /\ Len(output.lines) = Len(parse_errors)
                /\ \A k \in DOMAIN parse_errors :
                     output.lines[k]
                       = "- Row " \o ToString(parse_errors[k].row_number)
                         \o " (line_id " \o parse_errors[k].line_id \o "): "
                         \o parse_errors[k].reason
           /\ parse_errors = <<>> =>
                /\ output.message
                     = "No valid line items could be parsed from the input."
                /\ output.lines = <<>>

\* Witness of C9: run has returned for a text of two data rows, both
\* malformed.
C9_Witness ==
    /\ Returned
    /\ catalog_file.exists
    /\ items = <<>>
    /\ Len(parse_errors) = 2
    /\ output.kind = "error"

\* The valid data rows of the text and the duplicate key each would carry
ValidRows ==
    SelectSeq(TextDataRows, LAMBDA r : FirstFailing(r) = 0)

RowKey(row) ==
    <<RawField(row, "date_of_service"), RawField(row, "code"),
      IntLiteral[RawField(row, "units")],
      ChargeLiteral[RawField(row, "charge")]>>

\* C10: when the catalog file exists and parsing yields a valid item, run
\* completes with the full report: Sections 1-5 in order, preceded by the
\* Input Problems section iff there is a parse error; that section has one
\* row per parse error; Section 2 and the duplicate groups hold the valid
\* rows only; no business-rule flag turns the result into an error document.
C10_FullReport ==
    (catalog_file.exists /\ Parsed /\ items # <<>>) =>
      /\ pc \in {"check", "duplicates", "backfill", "render", "done"}
      /\ Returned =>
           /\ output.kind = "report"
           /\ [k \in DOMAIN output.parts |-> output.parts[k].title]
                = (IF parse_errors # <<>> THEN <<"**Input Problems**">>
                   ELSE <<>>) \o SectionTitles
           /\ parse_errors # <<>> =>
                /\ Len(output.parts[1].rows) = Len(parse_errors)
                /\ \A k \in DOMAIN parse_errors :
                     output.parts[1].rows[k]
                       = <<ToString(parse_errors[k].row_number),
                           parse_errors[k].line_id, parse_errors[k].reason>>
           /\ Len(parse_errors) = Len(FailingRows)
           /\ Len(Section2Rows) = Len(ValidRows)
           /\ \A g \in DOMAIN dup_groups :
                Len(dup_groups[g].line_ids)
                  = Cardinality({i \in DOMAIN ValidRows :
                       RowKey(ValidRows[i]) = GroupKey(dup_groups[g])})

\* Witness of C10: run has returned a report for a text with a malformed
\* row, a duplicate group and an item flagged for clarification.
C10_Witness ==
    /\ Returned
    /\ output.kind = "report"
    /\ parse_errors # <<>>
    /\ dup_groups # <<>>
    /\ \E i \in DOMAIN evaluated : evaluated[i].needs_clarification
    /\ Len(output.parts) = 6

\* C11: run leaves the caller's header as it was passed (no step of run
\* changes a field of the header, whether total_billed was absent, empty,
\* "N/A", "_No response_" or given), and evaluate_line leaves the line items
\* and the catalog it is given unchanged.
C11_SideEffectFree ==
    [][/\ header' = header
       /\ EvaluateLines => (items' = items /\ code_defs' = code_defs)]_vars

\* What TLC confirms of C11: run changes no header field other than
\* total_billed, changes total_billed only when it was absent or a
\* placeholder, and evaluate_line changes neither the items nor the catalog.
HeaderFrameExceptTotalBilled ==
    [][/\ \A k \in DOMAIN header : k # "total_billed" =>
             (k \in DOMAIN header' /\ header'[k] = header[k])
       /\ DOMAIN header' \subseteq DOMAIN header \cup {"total_billed"}
       /\ HeaderGet(header, "total_billed", "")
            \notin {"", "N/A", "_No response_"} => header' = header
       /\ EvaluateLines => (items' = items /\ code_defs' = code_defs)]_vars

====
